---- MODULE Spec2Model ----
(***************************************************************************)
(* DatabricksConnectionManager (src/unnamed/part_000): the three-source    *)
(* connection merge, the persistence of the merged result and the          *)
(* activation of one connection, over several startups of one workspace.   *)
(* DatabricksJobRun (src/src/databricksApi/jobs/DatabricksJobRun.ts): the   *)
(* state bucket, the context value and the tooltip of a job run, and stop(). *)
(***************************************************************************)
EXTENDS Integers, Sequences, FiniteSets, TLC

(* ------------------------------------------------------------------ *)
(* Bounds of the model.                                               *)
(* ------------------------------------------------------------------ *)
\* entries of 'databricks.connections' plus entries persisted for this workspace
MaxEntries == 3
\* startups (constructions of the manager) of the same workspace
MaxStarts == 2
\* activateConnection commands issued by the user after one startup
MaxCommands == 1
\* stop() calls on the job run
MaxStops == 2

(* ------------------------------------------------------------------ *)
(* Values.                                                            *)
(* ------------------------------------------------------------------ *)
\* JavaScript undefined, for the string-valued settings
Undefined == "undefined"

\* an iDatabricksConnection: the key and one payload field
Con(n, u) == [displayName |-> n, apiRootUrl |-> u]

\* JavaScript null / undefined, for a DatabricksConnection
NullCon == Con("<null>", "")

\* an iWorkspaceConfiguration
WsCfg(g, l) == [workspaceGuid |-> g, lastActiveConnection |-> l]

\* an iUserWorkspaceConfiguration
UserCfg(w, cs) == [workspaceConfig |-> w, connections |-> cs]

\* the value of the cleared 'databricks.connection.default.*' keys
NoDefault == Con("", "")

\* the ids Helper.newGuid hands out, in order: each one is new
GuidNames == <<"n1", "n2", "n3", "n4">>

SeqUpTo(S, n) == UNION {[1..k -> S] : k \in 0..n}

Names(cs) == {cs[i].displayName : i \in 1..Len(cs)}

\* entries the user may have put in 'databricks.connections'
ExplicitPool == {Con("A", "e"), Con("B", "e"), Con("B", "")}
\* what the settings GUI may have put in 'databricks.connection.default.*'
DefaultPool == {NoDefault, Con("B", "d"), Con("B", "")}
\* entries persisted for this workspace in 'databricks.userWorkspaceConfigurations'
PersistedPool == {Con("B", "p"), Con("C", "p"), Con("C", "")}
\* the entry of another workspace in the global store
OtherCfg == UserCfg(WsCfg("g2", "C"), <<Con("C", "o")>>)
\* names the user may ask to activate
CommandNames == {"A", "B", "C", "Z"}

(* ------------------------------------------------------------------ *)
(* State.                                                             *)
(* ------------------------------------------------------------------ *)
VARIABLES
    \* the configuration store (vscode.workspace.getConfiguration())
    cfgWorkspaceConfiguration,      \* 'databricks.workspaceConfiguration'
    cfgConnections,                 \* 'databricks.connections'
    cfgDefault,                     \* 'databricks.connection.default.*'
    cfgUserWorkspaceConfigurations, \* 'databricks.userWorkspaceConfigurations'
    pending,                        \* update() calls not yet applied to the store
    \* the manager's fields
    _workspaceConfig, _connections, _activeConnection, _initialized,
    \* loadConnections' locals
    cons, con, defaultConnectionFromWorkspace, rawUserConnections,
    connectionsFromUserConfig,
    \* control
    pc,             \* the constructor's position
    error,          \* the error thrown last, or NoError
    \* collaborators
    guids,          \* number of Helper.newGuid calls
    initCalls,      \* number of DatabricksApiService.initialize calls of this startup
    initArg,        \* the connection last passed to DatabricksApiService.initialize
    shown,          \* messages passed to vscode.window.showErrorMessage in this startup
    lastRead,       \* what the Connections getter returned last
    returned,       \* what activateConnection returned last, NullCon when it threw
    starts, commands

VARIABLES
    \* the job run tree item
    definition,     \* the iDatabricksJobRun the item was built from
    view,           \* what the getters state, contextValue and tooltip returned last
    calls           \* the stop() calls made so far, one record each

jobVars == <<definition, view, calls>>

managerVars == <<cfgWorkspaceConfiguration, cfgConnections, cfgDefault,
          cfgUserWorkspaceConfigurations, pending,
          _workspaceConfig, _connections, _activeConnection, _initialized,
          cons, con, defaultConnectionFromWorkspace, rawUserConnections,
          connectionsFromUserConfig,
          pc, error, guids, initCalls, initArg, shown, lastRead, returned, starts,
          commands>>

vars == <<managerVars, jobVars>>

storeVars == <<cfgWorkspaceConfiguration, cfgConnections, cfgDefault,
               cfgUserWorkspaceConfigurations>>
localVars == <<cons, con, defaultConnectionFromWorkspace, rawUserConnections,
               connectionsFromUserConfig>>
apiVars == <<initCalls, initArg>>

NoError == [kind |-> "none", name |-> ""]
NotFoundError(n) == [kind |-> "notFound", name |-> n]
DuplicateGuidError == [kind |-> "duplicateGuid", name |-> ""]

NoConnectionsMsg == "No connections have been configured yet!"

\* a list nobody has read yet
NotRead == <<NullCon>>

(* ------------------------------------------------------------------ *)
(* Pure functions of the manager.                                     *)
(* ------------------------------------------------------------------ *)
\* DatabricksConnection.validate(): the displayName and the connection's own
\* fields must be filled in
validate(c) == c.displayName # "" /\ c.apiRootUrl # ""

\* the loop of lines 124-129 and 162-167: the entries that validate, in order
getConnectionsFromWorkspace(raw) == SelectSeq(raw, validate)

getDefaultConnectionFromWorkspace(c) ==
    IF c.displayName = "" \/ ~validate(c) THEN NullCon ELSE c

\* line 218: the global entries carrying the current workspaceGuid
MatchingUserWorkspaceConfigs(all, guid) ==
    LET Same(x) == x.workspaceConfig.workspaceGuid = guid
    IN  SelectSeq(all, Same)

\* variant of line 227: never an error
CurrentUserWorkspaceConfigurationThrows_Never(all, guid) == FALSE

\* line 227: more than one entry for the current workspaceGuid is an error
CurrentUserWorkspaceConfigurationThrows(all, guid) ==
    Len(MatchingUserWorkspaceConfigs(all, guid)) > 1

\* variant of lines 162-167: entries are not validated
getConnectionsFromUserConfig_Unvalidated(raw) == raw

\* lines 220-225 and 161-173: the connections of the one entry, or none
CurrentUserWorkspaceConnections(all, guid) ==
    LET m == MatchingUserWorkspaceConfigs(all, guid)
    IN  IF Len(m) = 1 THEN m[1].connections ELSE <<>>

getConnectionsFromUserConfig(raw) == SelectSeq(raw, validate)

\* lines 78-80
PushDefaultConnection(conns, def) ==
    IF def # NullCon /\ def.displayName \notin Names(conns)
    THEN Append(conns, def)
    ELSE conns

\* variant of line 82: no filter
NewConnectionsFromWorkspace_Unfiltered(conns, fromUser) == fromUser

\* line 82: the filter reads this._connections, which line 84 replaces only
\* after the filter has run
NewConnectionsFromWorkspace(conns, fromUser) ==
    LET IsNew(x) == x.displayName \notin Names(conns)
    IN  SelectSeq(fromUser, IsNew)

\* variant of lines 239-241: the old entry of this workspace is kept
UpdatedUserWorkspaceConfigs_Appends(all, cur) == all \o <<cur>>

\* lines 235-246: CurrentWorkspaceConfiguration is always an object
UpdatedUserWorkspaceConfigs(all, cur) ==
    LET Other(x) == x.workspaceConfig.workspaceGuid # cur.workspaceConfig.workspaceGuid
    IN  SelectSeq(all, Other) \o <<cur>>

\* line 93
FilteredConnections(conns, displayName) ==
    LET Named(x) == x.displayName = displayName
    IN  SelectSeq(conns, Named)

\* variant of lines 92-117: line 97 runs before the test of line 95
activateConnection_MarksBeforeLookup(conns, wcfg, active, displayName) ==
    LET f == FilteredConnections(conns, displayName)
        w == [wcfg EXCEPT !.lastActiveConnection = displayName]
    IN  IF Len(f) = 1
        THEN [ok |-> TRUE, active |-> f[1], workspaceConfig |-> w,
              initialize |-> <<f[1]>>,
              writes |-> <<[key |-> "workspaceConfiguration", target |-> "Workspace",
                            value |-> w]>>,
              result |-> f[1], error |-> NoError]
        ELSE [ok |-> FALSE, active |-> active, workspaceConfig |-> w,
              initialize |-> <<>>, writes |-> <<>>,
              result |-> NullCon, error |-> NotFoundError(displayName)]

\* variant of lines 92-117: line 99 is missing
activateConnection_SkipsInitialize(conns, wcfg, active, displayName) ==
    LET f == FilteredConnections(conns, displayName)
        w == [wcfg EXCEPT !.lastActiveConnection = displayName]
    IN  IF Len(f) = 1
        THEN [ok |-> TRUE, active |-> f[1], workspaceConfig |-> w,
              initialize |-> <<>>,
              writes |-> <<[key |-> "workspaceConfiguration", target |-> "Workspace",
                            value |-> w]>>,
              result |-> f[1], error |-> NoError]
        ELSE [ok |-> FALSE, active |-> active, workspaceConfig |-> wcfg,
              initialize |-> <<>>, writes |-> <<>>,
              result |-> NullCon, error |-> NotFoundError(displayName)]

\* lines 92-117: what activateConnection leaves behind. The update of the editor
\* setting python.dataScience.codeRegularExpression (lines 103-108) is a side effect
\* on a key the manager never reads and is left out.
activateConnection(conns, wcfg, active, displayName) ==
    LET f == FilteredConnections(conns, displayName)
    IN  IF Len(f) = 1
        THEN [ok |-> TRUE,
              active |-> f[1],
              workspaceConfig |-> [wcfg EXCEPT !.lastActiveConnection = displayName],
              initialize |-> <<f[1]>>,
              writes |-> <<[key |-> "workspaceConfiguration", target |-> "Workspace",
                            value |-> [wcfg EXCEPT !.lastActiveConnection = displayName]]>>,
              result |-> f[1],
              error |-> NoError]
        ELSE [ok |-> FALSE,
              active |-> active,
              workspaceConfig |-> wcfg,
              initialize |-> <<>>,
              writes |-> <<>>,
              result |-> NullCon,
              error |-> NotFoundError(displayName)]

\* variant of line 267: no wait
ConnectionsReadable_NoWait(initialized) == TRUE

\* line 267: the getter returns once the manager is initialized
ConnectionsReadable(initialized) == initialized

\* variant of lines 21-25: nothing is shown
NoConnectionsMessages_Silent(conns) == <<>>

\* lines 21-25: the message shown when nothing is configured
NoConnectionsMessages(conns) ==
    IF Len(conns) = 0 THEN <<NoConnectionsMsg>> ELSE <<>>

(* ------------------------------------------------------------------ *)
(* DatabricksJobRun: values and getters.                              *)
(* ------------------------------------------------------------------ *)
\* `(endDate.getTime() - startDate.getTime()) / 1000`
MsPerSecond == 1000
\* `await Helper.wait(10000)`
SettleDelay == 10000

\* the first argument of super(...) in the constructor
JobRunType == "JOB_RUN"

\* an iDatabricksJobRun as the jobs API returns it; times are epoch
\* milliseconds, durations milliseconds
Run(result_state, life_cycle_state, start, setup, execution, cleanup) ==
    [run_id |-> 1,
     state |-> [result_state |-> result_state, life_cycle_state |-> life_cycle_state],
     start_time |-> start,
     setup_duration |-> setup,
     execution_duration |-> execution,
     cleanup_duration |-> cleanup]

\* result_state is absent while the run has not finished
ResultStates == {Undefined, "", "SUCCESS", "FAILED", "CANCELED", "TIMEDOUT", "SKIPPED"}
LifeCycleStates == {"RUNNING", "TERMINATED"}
StartTimes == {0, 60000}
SetupDurations == {1000}
ExecutionDurations == {0, 2000}
CleanupDurations == {0, 500}
\* values of Date.now(); none precedes a start time
ClockReadings == {60000, 75250}

\* a JavaScript number of milliseconds divided by 1000, as the decimal
\* number the template literal prints: whole seconds and thousandths
Seconds(ms) ==
    [whole |-> ms \div MsPerSecond, thousandths |-> ms % MsPerSecond]

\* new Date(ms) for the integral values of the jobs API, all of them inside
\* the range of Date: an object holding the time value
Date(ms) == [time |-> ms]
getTime(date) == date.time

\* date.toISOString().split('T')[1]: the UTC time of day, here in milliseconds
MsPerDay == 86400000
TimeOfDay(date) == date.time % MsPerDay

state_ConsultsLifeCycle(def) ==
    IF def.state.result_state = "SUCCESS" THEN "succeeded"
    ELSE IF \/ def.state.result_state \in {"FAILED", "CANCELED", "TIMEDOUT"}
            \/ def.state.life_cycle_state = "TERMINATED"
         THEN "failed"
         ELSE "running"

\* get state(), lines 84-96
state(def) ==
    IF def.state.result_state = "SUCCESS" THEN "succeeded"
    ELSE IF \/ def.state.result_state = "FAILED"
            \/ def.state.result_state = "CANCELED"
            \/ def.state.result_state = "TIMEDOUT"
         THEN "failed"
         ELSE "running"

\* get contextValue(), lines 53-58
contextValue(def) ==
    IF state(def) = "running" THEN "RUNNING_JOB" ELSE JobRunType

tooltip_OmitsCleanup(def, now) ==
    LET startDate == Date(def.start_time)
    IN  IF state(def) = "succeeded"
        THEN LET endDate == Date(def.start_time + def.setup_duration
                                    + def.execution_duration)
             IN  [started |-> TimeOfDay(startDate), finished |-> TimeOfDay(endDate),
                  duration |-> Seconds(getTime(endDate) - getTime(startDate)),
                  running |-> FALSE]
        ELSE [started |-> TimeOfDay(startDate), finished |-> Undefined,
              duration |-> Seconds(now - getTime(startDate)), running |-> TRUE]

\* get tooltip(), lines 25-44: the Started and Finished times, the
\* Duration in seconds and whether the line ends in "(running)"
tooltip(def, now) ==
    LET startDate == Date(def.start_time)
    IN  IF state(def) = "succeeded"
        THEN LET endDate == Date(def.start_time + def.setup_duration
                                    + def.execution_duration + def.cleanup_duration)
             IN  [started |-> TimeOfDay(startDate), finished |-> TimeOfDay(endDate),
                  duration |-> Seconds(getTime(endDate) - getTime(startDate)),
                  running |-> FALSE]
        ELSE [started |-> TimeOfDay(startDate), finished |-> Undefined,
              duration |-> Seconds(now - getTime(startDate)), running |-> TRUE]

RefreshCommands_WhenSettled(cancel) ==
    IF cancel = "pending" THEN <<>> ELSE <<"databricksJobs.refresh">>

RefreshCommands_OnlyOnSuccess(cancel) ==
    IF cancel = "resolved" THEN <<"databricksJobs.refresh">> ELSE <<>>

\* line 164: the commands stop() executes once its wait is over
RefreshCommands(cancel) == <<"databricksJobs.refresh">>

\* Helper.wait(ms): a promise that is fulfilled once ms milliseconds have passed
Helper_wait(ms) == [ms |-> ms, fulfilled |-> FALSE]

\* no getter has been read yet
NoView == [state |-> Undefined, contextValue |-> Undefined, now |-> 0,
           tooltip |-> Undefined]

\* a tree without a job run item
NoRun == Run(Undefined, "RUNNING", 0, 0, 0, 0)
JobIdle ==
    /\ definition = NoRun
    /\ view = NoView
    /\ calls = <<>>

(* ------------------------------------------------------------------ *)
(* Initial states: the settings found by the first startup.           *)
(* ------------------------------------------------------------------ *)
\* the global store, as the places of the entries of this workspace ("cur", and
\* "dup" for a second entry carrying the same workspaceGuid) among the entries of
\* two other workspaces
StoreLayouts ==
    {<<>>, <<"o2">>, <<"cur">>, <<"cur", "o2">>, <<"o2", "cur", "o3">>,
     <<"o3", "o2">>, <<"cur", "dup">>, <<"o2", "cur", "dup">>}

StoreEntry(slot, persisted) ==
    CASE slot = "cur" -> UserCfg(WsCfg("g1", Undefined), persisted)
      [] slot = "dup" -> UserCfg(WsCfg("g1", "B"), <<Con("B", "q")>>)
      [] slot = "o2"  -> OtherCfg
      [] OTHER        -> UserCfg(WsCfg("g3", Undefined), <<>>)

Store(layout, persisted) == [i \in 1..Len(layout) |-> StoreEntry(layout[i], persisted)]

HasCurrent(layout) == \E i \in 1..Len(layout) : layout[i] = "cur"

\* the manager's fields and the collaborators before the constructor runs
Fresh ==
    /\ _workspaceConfig = WsCfg(Undefined, Undefined)
    /\ _connections = <<>>
    /\ _activeConnection = NullCon
    /\ _initialized = FALSE
    /\ cons = <<>>
    /\ con = NoDefault
    /\ defaultConnectionFromWorkspace = NullCon
    /\ rawUserConnections = <<>>
    /\ connectionsFromUserConfig = <<>>
    /\ pc = "loadWorkspaceConfig"
    /\ error = NoError
    /\ initCalls = 0
    /\ initArg = NullCon
    /\ shown = <<>>
    /\ lastRead = NotRead
    /\ returned = NullCon
    /\ commands = 0

Init ==
    /\ \E explicit \in SeqUpTo(ExplicitPool, MaxEntries),
          persisted \in SeqUpTo(PersistedPool, MaxEntries),
          layout \in StoreLayouts,
          wcfg \in {WsCfg(Undefined, Undefined), WsCfg("g1", Undefined), WsCfg("g1", "B")} :
            /\ Len(explicit) + Len(persisted) <= MaxEntries
            /\ ~HasCurrent(layout) => persisted = <<>>
            \* a workspace that has no workspaceGuid yet has no entry in the global store
            /\ wcfg.workspaceGuid = Undefined => layout \in {<<>>, <<"o2">>, <<"o3", "o2">>}
            /\ cfgWorkspaceConfiguration = wcfg
            /\ cfgConnections = explicit
            /\ cfgUserWorkspaceConfigurations = Store(layout, persisted)
    /\ cfgDefault \in DefaultPool
    /\ pending = <<>>
    /\ guids = 0
    /\ starts = 1
    /\ Fresh
    /\ JobIdle

(* ------------------------------------------------------------------ *)
(* loadConnections, lines 41-89, statement by statement.              *)
(* ------------------------------------------------------------------ *)
\* lines 51-57
LoadWorkspaceConfig ==
    /\ pc = "loadWorkspaceConfig"
    /\ IF cfgWorkspaceConfiguration.workspaceGuid = Undefined
       THEN /\ _workspaceConfig' = [cfgWorkspaceConfiguration EXCEPT
                                        !.workspaceGuid = GuidNames[guids + 1]]
            /\ guids' = guids + 1
       ELSE /\ _workspaceConfig' = cfgWorkspaceConfiguration
            /\ guids' = guids
    /\ pc' = "loadFromWorkspace"
    /\ UNCHANGED <<returned, storeVars, pending, _connections, _activeConnection, _initialized,
                   localVars, error, apiVars, shown, lastRead, starts, commands>>
    /\ UNCHANGED jobVars

\* lines 59-61 and 119-132
LoadFromWorkspace ==
    /\ pc = "loadFromWorkspace"
    /\ cons' = cfgConnections
    /\ _connections' = getConnectionsFromWorkspace(cfgConnections)
    /\ pc' = "loadDefault"
    /\ UNCHANGED <<returned, storeVars, pending, _workspaceConfig, _activeConnection, _initialized,
                   con, defaultConnectionFromWorkspace, rawUserConnections,
                   connectionsFromUserConfig, error, guids, apiVars, shown, lastRead,
                   starts, commands>>
    /\ UNCHANGED jobVars

\* lines 63-72 and 134-154
LoadDefault ==
    /\ pc = "loadDefault"
    /\ con' = cfgDefault
    /\ defaultConnectionFromWorkspace' = getDefaultConnectionFromWorkspace(cfgDefault)
    /\ pc' = "loadFromUserConfig"
    /\ UNCHANGED <<returned, storeVars, pending, _workspaceConfig, _connections, _activeConnection,
                   _initialized, cons, rawUserConnections, connectionsFromUserConfig,
                   error, guids, apiVars, shown, lastRead, starts, commands>>
    /\ UNCHANGED jobVars

\* lines 74-76, 156-174 and 215-228: the error of line 227 leaves loadConnections
\* and the constructor
LoadFromUserConfig ==
    /\ pc = "loadFromUserConfig"
    /\ IF CurrentUserWorkspaceConfigurationThrows(cfgUserWorkspaceConfigurations,
                                                  _workspaceConfig.workspaceGuid)
       THEN /\ pc' = "threw"
            /\ error' = DuplicateGuidError
            /\ UNCHANGED <<rawUserConnections, connectionsFromUserConfig>>
       ELSE /\ rawUserConnections' =
                    CurrentUserWorkspaceConnections(cfgUserWorkspaceConfigurations,
                                                    _workspaceConfig.workspaceGuid)
            /\ connectionsFromUserConfig' = getConnectionsFromUserConfig(rawUserConnections')
            /\ pc' = "mergeDefault"
            /\ error' = error
    /\ UNCHANGED <<returned, storeVars, pending, _workspaceConfig, _connections, _activeConnection,
                   _initialized, cons, con, defaultConnectionFromWorkspace,
                   guids, apiVars, shown, lastRead, starts, commands>>
    /\ UNCHANGED jobVars

\* lines 78-80
MergeDefault ==
    /\ pc = "mergeDefault"
    /\ _connections' = PushDefaultConnection(_connections, defaultConnectionFromWorkspace)
    /\ pc' = "mergeUserConfig"
    /\ UNCHANGED <<returned, storeVars, pending, _workspaceConfig, _activeConnection, _initialized,
                   localVars, error, guids, apiVars, shown, lastRead, starts, commands>>
    /\ UNCHANGED jobVars

\* lines 82-84
MergeUserConfig ==
    /\ pc = "mergeUserConfig"
    /\ _connections' = _connections \o
                       NewConnectionsFromWorkspace(_connections, connectionsFromUserConfig)
    /\ pc' = "markInitialized"
    /\ UNCHANGED <<returned, storeVars, pending, _workspaceConfig, _activeConnection, _initialized,
                   localVars, error, guids, apiVars, shown, lastRead, starts, commands>>
    /\ UNCHANGED jobVars

\* line 86
MarkInitialized ==
    /\ pc = "markInitialized"
    /\ _initialized' = TRUE
    /\ pc' = "updateUserWorkspaceConfig"
    /\ UNCHANGED <<returned, storeVars, pending, _workspaceConfig, _connections, _activeConnection,
                   localVars, error, guids, apiVars, shown, lastRead, starts, commands>>
    /\ UNCHANGED jobVars

\* lines 88 and 230-256: the three update() calls are issued, none is awaited;
\* CurrentWorkspaceConfiguration (line 205) reads the Connections getter
UpdateUserWorkspaceConfig ==
    /\ pc = "updateUserWorkspaceConfig"
    /\ ConnectionsReadable(_initialized)
    /\ lastRead' = _connections
    /\ pending' = pending \o
          << [key |-> "userWorkspaceConfigurations", target |-> "Global",
              value |-> UpdatedUserWorkspaceConfigs(cfgUserWorkspaceConfigurations,
                                                    UserCfg(_workspaceConfig, _connections))],
             [key |-> "connections", target |-> "Workspace", value |-> <<>>],
             [key |-> "default", target |-> "Workspace", value |-> NoDefault] >>
    /\ pc' = "checkConnections"
    /\ UNCHANGED <<returned, storeVars, _workspaceConfig, _connections, _activeConnection,
                   _initialized, localVars, error, guids, apiVars, shown, starts, commands>>
    /\ UNCHANGED jobVars

(* ------------------------------------------------------------------ *)
(* The constructor after loadConnections, lines 21-38.                *)
(* ------------------------------------------------------------------ *)
\* lines 21-29
CheckConnections ==
    /\ pc = "checkConnections"
    /\ ConnectionsReadable(_initialized)
    /\ lastRead' = _connections
    /\ shown' = shown \o NoConnectionsMessages(_connections)
    /\ IF Len(_connections) = 0
       THEN /\ pc' = "done"
            /\ UNCHANGED _workspaceConfig
       ELSE /\ pc' = "activateLast"
            /\ _workspaceConfig' =
                 IF _workspaceConfig.lastActiveConnection = Undefined
                 THEN [_workspaceConfig EXCEPT
                          !.lastActiveConnection = _connections[1].displayName]
                 ELSE _workspaceConfig
    /\ UNCHANGED <<returned, storeVars, pending, _connections, _activeConnection, _initialized,
                   localVars, error, guids, apiVars, starts, commands>>
    /\ UNCHANGED jobVars

\* the effects of one activateConnection call on the manager and its collaborators
Activated(r) ==
    /\ ConnectionsReadable(_initialized)
    /\ lastRead' = _connections
    /\ _activeConnection' = r.active
    /\ _workspaceConfig' = r.workspaceConfig
    /\ initCalls' = initCalls + Len(r.initialize)
    /\ initArg' = IF r.initialize = <<>> THEN initArg ELSE r.initialize[1]
    /\ pending' = pending \o r.writes
    /\ returned' = r.result

\* lines 30-34: the error of activateConnection is caught and logged
ActivateLast ==
    /\ pc = "activateLast"
    /\ LET r == activateConnection(_connections, _workspaceConfig, _activeConnection,
                                   _workspaceConfig.lastActiveConnection)
       IN  /\ Activated(r)
           /\ pc' = IF r.ok THEN "done" ELSE "activateFirst"
    /\ UNCHANGED <<storeVars, _connections, _initialized, localVars, error, guids,
                   shown, starts, commands>>
    /\ UNCHANGED jobVars

\* line 35: nothing catches the error of this call
ActivateFirst ==
    /\ pc = "activateFirst"
    /\ LET r == activateConnection(_connections, _workspaceConfig, _activeConnection,
                                   _connections[1].displayName)
       IN  /\ Activated(r)
           /\ pc' = IF r.ok THEN "done" ELSE "threw"
           /\ error' = r.error
    /\ UNCHANGED <<storeVars, _connections, _initialized, localVars, guids,
                   shown, starts, commands>>
    /\ UNCHANGED jobVars

(* ------------------------------------------------------------------ *)
(* After construction.                                                *)
(* ------------------------------------------------------------------ *)
\* activateConnection called by a command of the extension, lines 92-117
ActivateCommand(displayName) ==
    /\ pc = "done"
    /\ commands < MaxCommands
    /\ LET r == activateConnection(_connections, _workspaceConfig, _activeConnection,
                                   displayName)
       IN  /\ Activated(r)
           /\ error' = r.error
    /\ commands' = commands + 1
    /\ UNCHANGED <<storeVars, _connections, _initialized, localVars, pc, guids,
                   shown, starts>>
    /\ UNCHANGED jobVars

\* a caller of the Connections getter, lines 266-270: it gets the list once the
\* manager is initialized and waits until then
ReadConnections ==
    /\ ConnectionsReadable(_initialized)
    /\ lastRead # _connections
    /\ lastRead' = _connections
    /\ UNCHANGED <<returned, storeVars, pending, _workspaceConfig, _connections, _activeConnection,
                   _initialized, localVars, pc, error, guids, apiVars, shown, starts,
                   commands>>
    /\ UNCHANGED jobVars

\* the configuration store applies the oldest update() call
ConfigWritten ==
    /\ pending # <<>>
    /\ pending' = Tail(pending)
    /\ LET w == Head(pending)
       IN  /\ cfgWorkspaceConfiguration' =
                 IF w.key = "workspaceConfiguration" THEN w.value
                 ELSE cfgWorkspaceConfiguration
           /\ cfgConnections' =
                 IF w.key = "connections" THEN w.value ELSE cfgConnections
           /\ cfgDefault' = IF w.key = "default" THEN w.value ELSE cfgDefault
           /\ cfgUserWorkspaceConfigurations' =
                 IF w.key = "userWorkspaceConfigurations" THEN w.value
                 ELSE cfgUserWorkspaceConfigurations
    /\ UNCHANGED <<returned, _workspaceConfig, _connections, _activeConnection, _initialized,
                   localVars, pc, error, guids, apiVars, shown, lastRead, starts,
                   commands>>
    /\ UNCHANGED jobVars

\* the editor is closed and opened again on the same workspace: line 16 runs in
\* a new extension host, on the settings the last one left
Restart ==
    /\ pc \in {"done", "threw"}
    /\ pending = <<>>
    /\ starts < MaxStarts
    /\ starts' = starts + 1
    /\ _workspaceConfig' = WsCfg(Undefined, Undefined)
    /\ _connections' = <<>>
    /\ _activeConnection' = NullCon
    /\ _initialized' = FALSE
    /\ cons' = <<>>
    /\ con' = NoDefault
    /\ defaultConnectionFromWorkspace' = NullCon
    /\ rawUserConnections' = <<>>
    /\ connectionsFromUserConfig' = <<>>
    /\ pc' = "loadWorkspaceConfig"
    /\ error' = NoError
    /\ initCalls' = 0
    /\ initArg' = NullCon
    /\ shown' = <<>>
    /\ lastRead' = NotRead
    /\ returned' = NullCon
    /\ commands' = 0
    /\ UNCHANGED <<storeVars, pending, guids>>
    /\ UNCHANGED jobVars

Next ==
    \/ LoadWorkspaceConfig
    \/ LoadFromWorkspace
    \/ LoadDefault
    \/ LoadFromUserConfig
    \/ MergeDefault
    \/ MergeUserConfig
    \/ MarkInitialized
    \/ UpdateUserWorkspaceConfig
    \/ CheckConnections
    \/ ActivateLast
    \/ ActivateFirst
    \/ \E n \in CommandNames : ActivateCommand(n)
    \/ ReadConnections
    \/ ConfigWritten
    \/ Restart

Spec == Init /\ [][Next]_vars

(* ------------------------------------------------------------------ *)
(* The same manager on a configuration store that may reject an       *)
(* update(): the Thenable of lines 248-251 has a handler for          *)
(* fulfilment only, those of lines 179, 183-195 and 199 have none.    *)
(* ------------------------------------------------------------------ *)
\* the configuration store rejects the oldest update() call: the store
\* keeps its value and nothing in the manager learns of it
ConfigWriteFails ==
    /\ pending # <<>>
    /\ pending' = Tail(pending)
    /\ UNCHANGED <<storeVars, returned, _workspaceConfig, _connections, _activeConnection,
                   _initialized, localVars, pc, error, guids, apiVars, shown, lastRead,
                   starts, commands>>
    /\ UNCHANGED jobVars

FaultNext ==
    \/ Next
    \/ ConfigWriteFails

FaultSpec == Init /\ [][FaultNext]_vars

(* ------------------------------------------------------------------ *)
(* DatabricksJobRun: one tree item, its getters read by the tree view *)
(* and stop() called from its context menu.                           *)
(* ------------------------------------------------------------------ *)
\* the manager is not involved
ManagerIdle ==
    /\ cfgWorkspaceConfiguration = WsCfg(Undefined, Undefined)
    /\ cfgConnections = <<>>
    /\ cfgDefault = NoDefault
    /\ cfgUserWorkspaceConfigurations = <<>>
    /\ pending = <<>>
    /\ guids = 0
    /\ starts = 1
    /\ Fresh

\* constructor, lines 13-23
JobInit ==
    /\ definition \in {Run(rs, lcs, start, setup, execution, cleanup) :
                          rs \in ResultStates, lcs \in LifeCycleStates,
                          start \in StartTimes, setup \in SetupDurations,
                          execution \in ExecutionDurations,
                          cleanup \in CleanupDurations}
    /\ view = NoView
    /\ calls = <<>>
    /\ ManagerIdle

\* the tree view reads the getters of the item while the clock shows `now`
ReadItem(now) ==
    /\ view' = [state |-> state(definition),
                contextValue |-> contextValue(definition),
                now |-> now,
                tooltip |-> tooltip(definition, now)]
    /\ UNCHANGED <<definition, calls, managerVars>>

\* stop(), lines 155-163: the cancel request is sent, its two handlers are
\* registered, the wait is started and stop() suspends on the wait alone
stop ==
    /\ Len(calls) < MaxStops
    /\ calls' = Append(calls, [run_id |-> definition.run_id,
                               cancel |-> "pending",
                               notice |-> "none",
                               wait |-> Helper_wait(SettleDelay),
                               commands |-> <<>>,
                               promise |-> "pending"])
    /\ UNCHANGED <<definition, view, managerVars>>

\* lines 156-158: the cancel request is fulfilled
CancelFulfilled(i) ==
    /\ i \in 1..Len(calls)
    /\ calls[i].cancel = "pending"
    /\ calls' = [calls EXCEPT ![i].cancel = "resolved", ![i].notice = "information"]
    /\ UNCHANGED <<definition, view, managerVars>>

\* lines 159-161: the cancel request is rejected
CancelRejected(i) ==
    /\ i \in 1..Len(calls)
    /\ calls[i].cancel = "pending"
    /\ calls' = [calls EXCEPT ![i].cancel = "rejected", ![i].notice = "error"]
    /\ UNCHANGED <<definition, view, managerVars>>

\* lines 163-165: the wait is over, stop() resumes and returns
WaitOver(i) ==
    /\ i \in 1..Len(calls)
    /\ ~calls[i].wait.fulfilled
    /\ calls' = [calls EXCEPT
                    ![i].wait.fulfilled = TRUE,
                    ![i].commands = calls[i].commands \o RefreshCommands(calls[i].cancel),
                    ![i].promise = "fulfilled"]
    /\ UNCHANGED <<definition, view, managerVars>>

JobNext ==
    \/ \E now \in ClockReadings : ReadItem(now)
    \/ stop
    \/ \E i \in 1..MaxStops : CancelFulfilled(i)
    \/ \E i \in 1..MaxStops : CancelRejected(i)
    \/ \E i \in 1..MaxStops : WaitOver(i)

\* a timer of the event loop that has been started runs out; nothing
\* makes the remote service answer the cancel request
JobSpec ==
    /\ JobInit
    /\ [][JobNext]_vars
    /\ \A i \in 1..MaxStops : WF_vars(WaitOver(i))

(* ------------------------------------------------------------------ *)
(* Properties.                                                        *)
(* ------------------------------------------------------------------ *)
\* what the three sources held when this load read them
ValidExplicit == SelectSeq(cons, validate)
DefaultExists == con.displayName # "" /\ validate(con)
ValidPersisted == SelectSeq(rawUserConnections, validate)
Elements(cs) == {cs[i] : i \in 1..Len(cs)}

\* the merge as the precedence rule states it
MergedByPrecedence ==
    LET defaultPart ==
            IF DefaultExists /\ con.displayName \notin Names(ValidExplicit)
            THEN <<con>> ELSE <<>>
        Remaining(x) ==
            /\ x.displayName \notin Names(ValidExplicit)
            /\ ~(DefaultExists /\ x.displayName = con.displayName)
    IN  ValidExplicit \o defaultPart \o SelectSeq(ValidPersisted, Remaining)

SourcesDisjoint ==
    /\ Names(ValidExplicit) \cap Names(ValidPersisted) = {}
    /\ DefaultExists =>
         con.displayName \notin (Names(ValidExplicit) \cup Names(ValidPersisted))

\* C1: once loadConnections has merged, the connection list is the valid
\* explicit-list entries in their order, then the default connection if it exists
\* and no explicit-list entry has its displayName, then the persisted entries whose
\* displayName neither an explicit-list entry nor the default carries; an entry whose
\* displayName occurs in several sources comes from the highest-precedence one; with
\* pairwise disjoint names the size is the sum of the valid entries of the sources.
C1_MergeByPrecedence ==
    _initialized =>
        /\ _connections = MergedByPrecedence
        /\ \A i \in 1..Len(_connections) :
             LET c == _connections[i]
             IN  /\ c.displayName \in Names(ValidExplicit) => c \in Elements(ValidExplicit)
                 /\ (c.displayName \notin Names(ValidExplicit) /\ DefaultExists
                        /\ c.displayName = con.displayName) => c = con
        /\ SourcesDisjoint =>
             Len(_connections) = Len(ValidExplicit) + (IF DefaultExists THEN 1 ELSE 0)
                                    + Len(ValidPersisted)

\* C1 witness: all three sources hold a valid entry named B, and one is kept
C1_Witness ==
    /\ _initialized
    /\ DefaultExists
    /\ con.displayName \in Names(ValidExplicit)
    /\ con.displayName \in Names(ValidPersisted)
    /\ Len(_connections) = 1

\* C2: after loadConnections no two elements of the connection list share a
\* displayName, whatever the sources held.
C2_UniqueByDisplayName ==
    _initialized =>
        \A i, j \in 1..Len(_connections) :
            i # j => _connections[i].displayName # _connections[j].displayName

\* a step that is one call of activateConnection(n): by the constructor for the
\* remembered name, by the constructor for the first connection, or by a command
ActivateCall(n) ==
    \/ ActivateLast /\ n = _workspaceConfig.lastActiveConnection
    \/ ActivateFirst /\ n = _connections[1].displayName
    \/ ActivateCommand(n)

\* the call was left by an error: the constructor caught it and goes on to the first
\* connection, or the caller got it
RaisedNotFound(n) ==
    \/ pc = "activateLast" /\ pc' = "activateFirst"
    \/ pc # "activateLast" /\ error' = NotFoundError(n)

AllNames == CommandNames \cup {Undefined}

\* C3: activateConnection(n) with n matching no connection, or more than one,
\* raises the not-found error carrying n and leaves the active connection,
\* lastActiveConnection, the stored workspace configuration and the number of
\* initialize calls as they were.
C3_ActivateUnknownChangesNothing ==
    [][\A n \in AllNames :
          (ActivateCall(n) /\ Len(FilteredConnections(_connections, n)) # 1) =>
              /\ RaisedNotFound(n)
              /\ returned' = NullCon
              /\ UNCHANGED <<_activeConnection, _workspaceConfig, _connections,
                             storeVars, pending, apiVars>>]_vars

\* C3 witness: a command named a connection that is not in the list, after the
\* constructor had activated one
C3_Witness ==
    /\ pc = "done"
    /\ commands = 1
    /\ error.kind = "notFound"
    /\ error.name \notin Names(_connections)
    /\ _activeConnection # NullCon
    /\ _workspaceConfig.lastActiveConnection = _activeConnection.displayName
    /\ initCalls = 1

\* C4: activateConnection(n) with n matching exactly one connection makes it
\* the active one, sets lastActiveConnection to n, issues the write of the
\* workspace configuration to the workspace scope, calls initialize exactly once,
\* with the newly active connection, and returns that connection.
C4_ActivateKnown ==
    [][\A n \in AllNames :
          (ActivateCall(n) /\ Len(FilteredConnections(_connections, n)) = 1) =>
              /\ _activeConnection' \in Elements(_connections)
              /\ _activeConnection'.displayName = n
              /\ _workspaceConfig' = [_workspaceConfig EXCEPT !.lastActiveConnection = n]
              /\ pending' = Append(pending, [key |-> "workspaceConfiguration",
                                             target |-> "Workspace",
                                             value |-> _workspaceConfig'])
              /\ initCalls' = initCalls + 1
              /\ initArg' = _activeConnection'
              /\ returned' = _activeConnection'
              /\ pc' = "done"
              /\ UNCHANGED <<_connections, storeVars>>]_vars

\* C4 witness: a command activated another connection than the constructor did
C4_Witness ==
    /\ pc = "done"
    /\ commands = 1
    /\ error = NoError
    /\ initCalls = 2
    /\ returned = _activeConnection
    /\ _activeConnection # _connections[1]
    /\ _workspaceConfig.lastActiveConnection = _activeConnection.displayName

\* the global store holds two or more entries for the workspaceGuid stored for
\* this workspace
DuplicateGuidStored ==
    /\ cfgWorkspaceConfiguration.workspaceGuid # Undefined
    /\ Len(MatchingUserWorkspaceConfigs(cfgUserWorkspaceConfigurations,
                                        cfgWorkspaceConfiguration.workspaceGuid)) >= 2

LoadReadsSources ==
    pc \in {"loadWorkspaceConfig", "loadFromWorkspace", "loadDefault", "loadFromUserConfig"}

\* C5: with two or more global entries for the current workspaceGuid,
\* loadConnections fails with the duplicate-guid error instead of going on with
\* one of them; no step changes the store or issues a write, the manager is never
\* marked initialized and no connection becomes active.
C5_DuplicateGuidIsFatal ==
    /\ [](DuplicateGuidStored =>
            /\ ~LoadReadsSources => (pc = "threw" /\ error = DuplicateGuidError)
            /\ ~_initialized
            /\ _activeConnection = NullCon
            /\ initCalls = 0
            /\ pending = <<>>)
    /\ [][DuplicateGuidStored => (DuplicateGuidStored' /\ UNCHANGED storeVars)]_vars

\* C5 witness: the second startup failed on the duplicate as the first did
C5_Witness ==
    /\ DuplicateGuidStored
    /\ starts = 2
    /\ pc = "threw"
    /\ error = DuplicateGuidError
    /\ cfgConnections # <<>>

\* C6: the list loadConnections writes to the global scope holds exactly one
\* entry for the current workspaceGuid, equal to {workspace config, merged
\* connections}, and every entry of the previous list that belongs to another
\* workspaceGuid, unchanged and in the same order.
C6_GlobalListReplaceOrInsert ==
    [][UpdateUserWorkspaceConfig =>
          LET w == pending'[Len(pending) + 1]
              g == _workspaceConfig.workspaceGuid
              Other(x) == x.workspaceConfig.workspaceGuid # g
              mine == MatchingUserWorkspaceConfigs(w.value, g)
          IN  /\ w.key = "userWorkspaceConfigurations"
              /\ w.target = "Global"
              /\ Len(mine) = 1
              /\ mine[1] = UserCfg(_workspaceConfig, _connections)
              /\ SelectSeq(w.value, Other) =
                   SelectSeq(cfgUserWorkspaceConfigurations, Other)
              /\ Len(w.value) = Len(SelectSeq(cfgUserWorkspaceConfigurations, Other)) + 1
      ]_vars

\* C6 witness: the entry of this workspace, found between the entries of two other
\* workspaces, has been replaced by the merged one and the write has been applied
C6_Witness ==
    /\ starts = 1
    /\ pc = "done"
    /\ pending = <<>>
    /\ Len(rawUserConnections) > 0
    /\ Len(cfgUserWorkspaceConfigurations) = 3
    /\ cfgUserWorkspaceConfigurations[1].workspaceConfig.workspaceGuid = "g2"
    /\ cfgUserWorkspaceConfigurations[2].workspaceConfig.workspaceGuid = "g3"
    /\ cfgUserWorkspaceConfigurations[3].workspaceConfig.workspaceGuid = "g1"
    /\ cfgUserWorkspaceConfigurations[3].connections = _connections
    /\ Len(_connections) > Len(rawUserConnections)

\* the entries of the global store that carry a workspaceGuid generated for this
\* workspace
GeneratedEntries ==
    {i \in 1..Len(cfgUserWorkspaceConfigurations) :
        cfgUserWorkspaceConfigurations[i].workspaceConfig.workspaceGuid
            \in Elements(GuidNames)}

\* C7: over the startups of one workspace the workspaceGuid is generated at most
\* once, whatever the merged connection set, and the global store never holds more
\* than one entry for the workspace.
C7_GuidGeneratedOnce ==
    /\ guids <= 1
    /\ Cardinality(GeneratedEntries) <= 1

\* C8: a constructor that loaded a non-empty connection list ends with an
\* active connection and does not throw: the connection named by the stored
\* lastActiveConnection when that is set and can be activated, otherwise the first
\* of the list.
C8_StartupActivates ==
    [][(pc \in {"activateLast", "activateFirst"} /\ pc' \in {"done", "threw"}) =>
          LET f == FilteredConnections(_connections, _workspaceConfig.lastActiveConnection)
          IN  /\ pc' = "done"
              /\ _activeConnection' = IF Len(f) = 1 THEN f[1] ELSE _connections[1]
      ]_vars

\* every source has been read and none held a valid connection
NoValidConnection ==
    /\ ~LoadReadsSources
    /\ error # DuplicateGuidError
    /\ ValidExplicit = <<>>
    /\ ~DefaultExists
    /\ ValidPersisted = <<>>

\* C9: when no source yields a valid connection the constructor does not throw:
\* the list is empty, the message is logged and shown, initialize is not called,
\* no activation writes anything and the active connection stays unset.
C9_NoConnectionsWarns ==
    NoValidConnection =>
        /\ _connections = <<>>
        /\ pc # "threw"
        /\ error = NoError \/ commands > 0
        /\ initCalls = 0
        /\ _activeConnection = NullCon
        /\ \A i \in 1..Len(pending) : pending[i].key # "workspaceConfiguration"
        /\ pc = "done" => shown = <<NoConnectionsMsg>>
        /\ pc \in {"mergeDefault", "mergeUserConfig", "markInitialized",
                   "updateUserWorkspaceConfig", "checkConnections", "done"}

\* C9 witness: the sources held entries, none valid, and the constructor has
\* finished with the message shown
C9_Witness ==
    /\ NoValidConnection
    /\ pc = "done"
    /\ cons # <<>>
    /\ con # NoDefault
    /\ shown = <<NoConnectionsMsg>>
    /\ _connections = <<>>

\* C10: a read of the Connections property returns only while the manager is
\* initialized, and every list read is the completely merged one, the reads
\* loadConnections makes while persisting included.
C10_ReadersSeeMergedList ==
    lastRead # NotRead =>
        /\ _initialized
        /\ lastRead = MergedByPrecedence
        /\ lastRead = _connections

\* C10 witness: a reader arriving between line 86 and line 88 got a list to
\* which all three sources contributed
C10_Witness ==
    /\ pc = "updateUserWorkspaceConfig"
    /\ lastRead = _connections
    /\ Len(lastRead) = 3
    /\ ValidExplicit # <<>>
    /\ DefaultExists
    /\ Len(lastRead) > Len(ValidExplicit) + 1

(* ------------------------------------------------------------------ *)
(* DatabricksJobRun.stop()                                            *)
(* ------------------------------------------------------------------ *)
Refresh == <<"databricksJobs.refresh">>
StopCalls == 1..Len(calls)

\* C11: every call of stop() eventually requests 'databricksJobs.refresh',
\* and requests it exactly once, whether its cancel request is fulfilled,
\* rejected or still pending; a rejected cancel request shows an error
\* notice, does not make stop() fail and does not suppress the refresh.
C11_StopRefreshesOnce ==
    /\ [](\A i \in StopCalls :
            /\ calls[i].commands \in {<<>>, Refresh}
            /\ calls[i].wait.fulfilled => calls[i].commands = Refresh
            /\ calls[i].cancel = "rejected" => calls[i].notice = "error"
            /\ calls[i].promise # "rejected")
    /\ \A i \in 1..MaxStops :
            (i \in StopCalls) ~> (i \in StopCalls /\ calls[i].commands = Refresh)

\* one call whose cancel request was rejected and one whose cancel request
\* is still pending have both requested the refresh
C11_Witness ==
    /\ Len(calls) = 2
    /\ calls[1].cancel = "rejected" /\ calls[1].notice = "error"
    /\ calls[1].commands = Refresh /\ calls[1].promise = "fulfilled"
    /\ calls[2].cancel = "pending" /\ calls[2].commands = Refresh

(* ------------------------------------------------------------------ *)
(* DatabricksJobRun.state and contextValue                            *)
(* ------------------------------------------------------------------ *)
ItemRead == view.state # Undefined
result_state == definition.state.result_state

\* C12: the state bucket is decided by result_state alone: "succeeded" for
\* SUCCESS, "failed" for FAILED, CANCELED and TIMEDOUT, "running" for every
\* other value, absent and empty included, whatever life_cycle_state is; the
\* item carries the context value RUNNING_JOB exactly when the bucket is
\* "running".
C12_StateBucket ==
    ItemRead =>
        /\ view.state = "succeeded" <=> result_state = "SUCCESS"
        /\ view.state = "failed" <=> result_state \in {"FAILED", "CANCELED", "TIMEDOUT"}
        /\ view.state = "running" <=>
                result_state \notin {"SUCCESS", "FAILED", "CANCELED", "TIMEDOUT"}
        /\ view.contextValue = "RUNNING_JOB" <=> view.state = "running"

\* a terminated run without result_state has been read as running
C12_Witness ==
    /\ ItemRead
    /\ result_state = Undefined
    /\ definition.state.life_cycle_state = "TERMINATED"
    /\ view.state = "running"
    /\ view.contextValue = "RUNNING_JOB"

(* ------------------------------------------------------------------ *)
(* A second load                                                      *)
(* ------------------------------------------------------------------ *)
\* the entries of a global list, by workspaceGuid and connection list
EntriesOf(all) ==
    [i \in 1..Len(all) |->
        [workspaceGuid |-> all[i].workspaceConfig.workspaceGuid,
         connections |-> all[i].connections]]

\* the load of a later startup is at line 88: the earlier startup has
\* finished its load and all of its writes are in the store
SecondLoadWrites ==
    /\ starts >= 2
    /\ pc = "updateUserWorkspaceConfig"
    /\ pc' = "checkConnections"

\* C13: a load that runs on the configuration a completed load has left ends
\* with the workspaceGuid and the ordered connection list that load stored, and
\* writes a global list with the same entries as the stored one.
C13_LoadIdempotent ==
    [][SecondLoadWrites =>
          /\ \E i \in 1..Len(cfgUserWorkspaceConfigurations) :
                EntriesOf(cfgUserWorkspaceConfigurations)[i] =
                    [workspaceGuid |-> _workspaceConfig.workspaceGuid,
                     connections |-> _connections]
          /\ EntriesOf(pending'[Len(pending) + 1].value) =
                EntriesOf(cfgUserWorkspaceConfigurations)]_vars

(* ------------------------------------------------------------------ *)
(* DatabricksJobRun.stop(): the order of its steps                    *)
(* ------------------------------------------------------------------ *)
\* call i requests the refresh in this step
RefreshRequested(i) ==
    /\ i \in StopCalls
    /\ calls[i].commands = <<>>
    /\ calls'[i].commands = Refresh

\* C14: stop() requests the refresh only once its cancel request has settled
\* and its notice has been shown: no step requests 'databricksJobs.refresh'
\* for a call whose cancel request is still pending.
C14_RefreshAfterCancelSettled ==
    [][\A i \in 1..MaxStops :
          RefreshRequested(i) =>
              /\ calls[i].cancel \in {"resolved", "rejected"}
              /\ calls[i].notice \in {"information", "error"}]_vars
\* the wait of call i ends in this step
WaitEnds(i) ==
    /\ i \in StopCalls
    /\ calls[i].wait = Helper_wait(SettleDelay)
    /\ calls'[i].wait.fulfilled

\* C14, amended: the wait starts with the call of stop(), not with the
\* settling of the cancel request; the refresh is requested in the step in
\* which that wait ends, and in every such step, whether the cancel request
\* has settled or is still pending.
C14_RefreshWhenWaitEnds ==
    [][\A i \in 1..MaxStops : RefreshRequested(i) <=> WaitEnds(i)]_vars

\* stop() has returned after requesting the refresh and its cancel request
\* is still pending
C14_Witness ==
    /\ Len(calls) = 1
    /\ calls[1].cancel = "pending" /\ calls[1].notice = "none"
    /\ calls[1].wait.fulfilled
    /\ calls[1].commands = Refresh
    /\ calls[1].promise = "fulfilled"

(* ------------------------------------------------------------------ *)
(* The clears of updateUserWorkspaceConfig                            *)
(* ------------------------------------------------------------------ *)
\* a clear of lines 254-255 is still on its way to the store
ClearPending ==
    \E i \in 1..Len(pending) : pending[i].key \in {"connections", "default"}

\* this load found connection settings in the workspace, and the store holds
\* none of them any more: its clears have been applied
LoadHasCleared ==
    /\ pc \in {"checkConnections", "activateLast", "activateFirst", "done", "threw"}
    /\ _initialized
    /\ cons # <<>> \/ con # NoDefault
    /\ ~ClearPending
    /\ cfgConnections = <<>>
    /\ cfgDefault = NoDefault

\* every merged connection is in an entry that the global store holds for
\* this workspace
CapturedInGlobalStore ==
    \A c \in Elements(_connections) :
        \E i \in 1..Len(cfgUserWorkspaceConfigurations) :
            /\ cfgUserWorkspaceConfigurations[i].workspaceConfig.workspaceGuid =
                    _workspaceConfig.workspaceGuid
            /\ c \in Elements(cfgUserWorkspaceConfigurations[i].connections)

\* C15: the workspace keys are cleared only once their connections are in the
\* global store: in every state in which the load has cleared them, the entry
\* of this workspaceGuid in the global store holds every merged connection,
\* also when the global write fails or has not completed.
C15_ClearedOnlyOnceCaptured ==
    LoadHasCleared => CapturedInGlobalStore

(* ------------------------------------------------------------------ *)
(* Invalid entries                                                    *)
(* ------------------------------------------------------------------ *)
\* the connections of the entries a written global list holds for this workspace
WrittenConnections(all) ==
    UNION {Elements(all[j].connections) : j \in
            {k \in 1..Len(all) :
                all[k].workspaceConfig.workspaceGuid = _workspaceConfig.workspaceGuid}}

\* the names that take precedence over a persisted entry
ExplicitAndDefaultNames ==
    Names(ValidExplicit) \cup (IF DefaultExists THEN {con.displayName} ELSE {})

\* C16: an entry that fails validate(), from any of the three sources, and a
\* default connection with an empty displayName make no load fail and are
\* neither in the merged list nor in the entry the load writes to the global
\* store, while the valid entries of the same source are loaded.
C16_InvalidEntriesDropped ==
    /\ (pc = "threw" /\ ~_initialized) => error = DuplicateGuidError
    /\ _initialized =>
        /\ \A c \in Elements(_connections) : validate(c) /\ c.displayName # ""
        /\ Elements(ValidExplicit) \subseteq Elements(_connections)
        /\ (DefaultExists /\ con.displayName \notin Names(ValidExplicit)) =>
                con \in Elements(_connections)
        /\ \A c \in Elements(ValidPersisted) :
                c.displayName \notin ExplicitAndDefaultNames =>
                    c \in Elements(_connections)
    /\ \A i \in 1..Len(pending) :
            pending[i].key = "userWorkspaceConfigurations" =>
                \A c \in WrittenConnections(pending[i].value) :
                    validate(c) /\ c.displayName # ""

\* every source held an invalid entry, the explicit list a valid one as well:
\* the load kept the valid one alone and is writing it to the global store
C16_Witness ==
    /\ pc = "checkConnections"
    /\ \E i \in 1..Len(cons) : ~validate(cons[i])
    /\ con # NoDefault /\ ~validate(con)
    /\ \E i \in 1..Len(rawUserConnections) : ~validate(rawUserConnections[i])
    /\ ValidExplicit # <<>>
    /\ _connections = ValidExplicit
    /\ pending # <<>>
    /\ Head(pending).key = "userWorkspaceConfigurations"
    /\ WrittenConnections(Head(pending).value) = Elements(ValidExplicit)

(* ------------------------------------------------------------------ *)
(* DatabricksJobRun.tooltip                                           *)
(* ------------------------------------------------------------------ *)
\* C17: the Duration of the tooltip of a succeeded run is setup_duration +
\* execution_duration + cleanup_duration, in seconds, whatever start_time and
\* the clock are; for a running or failed run it is the clock minus
\* start_time, in seconds, and the line ends in "(running)".
C17_TooltipElapsed ==
    ItemRead =>
        IF view.state = "succeeded"
        THEN /\ view.tooltip.duration =
                    Seconds(definition.setup_duration + definition.execution_duration
                                + definition.cleanup_duration)
             /\ ~view.tooltip.running
        ELSE /\ view.state \in {"running", "failed"}
             /\ view.tooltip.duration = Seconds(view.now - definition.start_time)
             /\ view.tooltip.running

\* a succeeded run with setup 1000, execution 2000 and cleanup 500 shows 3.5
\* seconds, read long after it started
C17_Witness ==
    /\ ItemRead
    /\ view.state = "succeeded"
    /\ definition.start_time = 0
    /\ definition.setup_duration = 1000
    /\ definition.execution_duration = 2000
    /\ definition.cleanup_duration = 500
    /\ view.now = 75250
    /\ view.tooltip.duration = [whole |-> 3, thousandths |-> 500]

(* ------------------------------------------------------------------ *)
(* The active connection                                              *)
(* ------------------------------------------------------------------ *)
\* C18: whenever an active connection is set, through the startup and every
\* later call of activateConnection, failed ones included, it is an element of
\* the connection list, the lastActiveConnection held in memory is its
\* displayName and it is the connection initialize was last called with; no
\* call of activateConnection changes the connection list.
C18_ActiveConnectionConsistent ==
    /\ [](_activeConnection # NullCon =>
            /\ _activeConnection \in Elements(_connections)
            /\ _workspaceConfig.lastActiveConnection = _activeConnection.displayName
            /\ initArg = _activeConnection)
    /\ [][\A n \in AllNames : ActivateCall(n) => _connections' = _connections]_vars

\* after the startup had activated the first connection, a command named a
\* displayName that two connections of the list carry, and failed
C18_Witness ==
    /\ pc = "done"
    /\ commands >= 1
    /\ error.kind = "notFound"
    /\ error.name \in Names(_connections)
    /\ _activeConnection = _connections[1]
    /\ initArg = _activeConnection
    /\ _workspaceConfig.lastActiveConnection = _activeConnection.displayName

====
